---------------------------- MODULE Spec2Model ----------------------------
(***************************************************************************)
(* Model of the task-management REST backend: the auth controller          *)
(* (register, login, refresh, logout), the bearer-token middleware and     *)
(* the task controller (list, get, create, update, delete) over one        *)
(* shared store.  Every handler is split at its awaits: each store call    *)
(* is one atomic step, and several handlers run interleaved.               *)
(***************************************************************************)
EXTENDS Integers, Sequences, FiniteSets, Bags, TLC

VARIABLES
    users,          \* User table: rows [id, name, email, password]
    refreshTokens,  \* RefreshToken table: rows [id, token, userId, expiresAt]
    tasks,          \* Task table: rows [id, title, description, status, priority, dueDate, userId]
    nextUserId,     \* autoincrement of User.id
    nextTokenId,    \* autoincrement of RefreshToken.id
    nextTaskId,     \* autoincrement of Task.id
    now,            \* Date.now(), in milliseconds
    auth,           \* bag of the /api/auth requests in flight, each at its await
    treq,           \* bag of the /api/tasks requests in flight, each at its await
    resp,           \* the response an auth route sent in the last step, if any
    tresp,          \* the response a task route sent in the last step, if any
    issued,         \* history: refresh token values handed to clients
    loggedOut,      \* history: token values of completed logout requests
    expiredSeen,    \* history: token values a refresh found expired
    creator,        \* history: task id -> id of the user who created it
    modifiedBy,     \* history: <<task id, identity>> of every update/delete done
    deletedOk       \* history: task id -> number of deleteTask 200 responses

vars == <<users, refreshTokens, tasks, nextUserId, nextTokenId, nextTaskId, now,
          auth, treq, resp, tresp, issued, loggedOut, expiredSeen, creator, modifiedBy, deletedOk>>

storeVars == <<users, refreshTokens, tasks, nextUserId, nextTokenId, nextTaskId>>
taskHist  == <<creator, modifiedBy, deletedOk>>
authHist  == <<issued, loggedOut, expiredSeen>>

(***************************************************************************)
(* Bounds of the model.                                                    *)
(***************************************************************************)
NumHandlers == 2      \* concurrent request handlers
MaxRows     == 2      \* refresh-token rows ever inserted
MaxSkew     == 1      \* seconds the clock may run past a whole refresh lifetime
MaxTasks    == 1      \* tasks ever created (concurrent-handler specification)
MaxListed   == 11     \* tasks ever created (listing specification)
MaxForeign  == 1      \* tasks of the other user among the listed ones
MaxPage     == 2      \* largest page asked for
MaxLimit    == 2      \* largest explicit limit asked for


(***************************************************************************)
(* Time and tokens.  jsonwebtoken stamps iat = floor(Date.now() / 1000)    *)
(* and exp = iat + expiresIn (seconds); HS256 is deterministic, so a token *)
(* string is a function of (secret, payload, iat, exp) and is modelled by  *)
(* that record.                                                            *)
(***************************************************************************)
MsPerSec        == 1000
AccessTtlSec    == 15 * 60
RefreshTtlSec   == 7 * 24 * 60 * 60
RefreshTtlMs    == 7 * 24 * 60 * 60 * 1000

JWT_SECRET         == "JWT_SECRET"
JWT_REFRESH_SECRET == "refresh_secret_key"

NoToken == [secret |-> "", id |-> 0, email |-> "", iat |-> 0, exp |-> 0]
GarbageToken == [secret |-> "garbage", id |-> 1, email |-> "", iat |-> 0, exp |-> RefreshTtlSec]

jwtSign(id, email, secret, ttl, t) ==
    [secret |-> secret, id |-> id, email |-> email,
     iat |-> t \div MsPerSec, exp |-> (t \div MsPerSec) + ttl]

\* jwt.verify: the signature matches the secret and the token has not expired
\* (jsonwebtoken rejects when floor(now / 1000) >= exp).
jwtVerify(tok, secret, t) == tok.secret = secret /\ (t \div MsPerSec) < tok.exp

\* bcrypt.hash / bcrypt.compare: one-way, compare succeeds on the same password.
Hash(pw) == <<"bcrypt", pw>>
Compare(pw, hashed) == hashed = Hash(pw)

(***************************************************************************)
(* Request bodies of the auth routes and their zod schemas.                *)
(***************************************************************************)
WellFormedEmails == {"a@x.io", "b@x.io"}

RegisterBodies ==
    [name : {"Al"}, email : WellFormedEmails, password : {"secret1"}]
      \cup {[name |-> "A", email |-> "a@x.io", password |-> "secret1"],
            [name |-> "Al", email |-> "nope", password |-> "secret1"],
            [name |-> "Al", email |-> "b@x.io", password |-> "12345"]}

LoginBodies ==
    [email : WellFormedEmails, password : {"secret1", "wrong"}]
      \cup {[email |-> "nope", password |-> "secret1"],
            [email |-> "a@x.io", password |-> ""]}

registerSchema(b) ==
    Len(b.name) >= 2 /\ b.email \in WellFormedEmails /\ Len(b.password) >= 6

loginSchema(b) == b.email \in WellFormedEmails /\ Len(b.password) >= 1

NoUser == [id |-> 0, name |-> "", email |-> "", password |-> <<>>]
NoRow  == [id |-> 0, token |-> NoToken, userId |-> 0, expiresAt |-> 0]

AuthIdle ==
    [op |-> "idle", pc |-> "idle", name |-> "", email |-> "", password |-> "",
     token |-> NoToken, user |-> NoUser, stored |-> NoRow,
     status |-> 0, msg |-> "", accessToken |-> NoToken, refreshToken |-> NoToken,
     created |-> FALSE, matched |-> FALSE, added |-> 0, removed |-> 0,
     afterLogout |-> FALSE, afterExpiry |-> FALSE, sawRow |-> "none",
     expAhead |-> FALSE]

\* res.status(s).json(...): the request's record, completed with the response.
Respond(r, s, m) == [r EXCEPT !.pc = "done", !.status = s, !.msg = m]

\* A handler step leaves the request at its next await, or sends the response
\* and ends the handler.  The response is recorded with the number of
\* refresh-token rows the step added and removed.  `h` is the request as it
\* was in flight (AuthIdle for one that has just arrived).
AuthStep(h, r) ==
    LET others == IF h.pc = "idle" THEN auth ELSE auth (-) SetToBag({h})
    IN  IF r.pc = "done"
        THEN /\ auth' = others
             /\ resp' = [r EXCEPT
                    !.added = Cardinality(refreshTokens' \ refreshTokens),
                    !.removed = Cardinality(refreshTokens \ refreshTokens')]
        ELSE /\ auth' = others (+) SetToBag({r})
             /\ resp' = AuthIdle

\* A handler is free to take a request.
Free == BagCardinality(auth) < NumHandlers

\* No response is on its way out: a response is written out before any
\* handler takes its next step.
Quiet == resp.pc = "idle" /\ tresp.pc = "idle"

\* Register and login requests still on their way to inserting a token row.
Pending ==
    LET S == {e \in BagToSet(auth) : e.op \in {"register", "login"}}
    IN  IF S = {} THEN 0 ELSE BagCardinality([e \in S |-> CopiesIn(e, auth)])

(***************************************************************************)
(* Store calls of the credential store.                                    *)
(***************************************************************************)
findUserByEmail(e) ==
    IF \E u \in users : u.email = e
    THEN CHOOSE u \in users : u.email = e
    ELSE NoUser

findRefreshToken(tok) ==
    IF \E row \in refreshTokens : row.token = tok
    THEN CHOOSE row \in refreshTokens : row.token = tok
    ELSE NoRow

\* User.email and RefreshToken.token are unique keys (both are looked up with
\* findUnique): a create that repeats one throws.
UserCreateThrows(e) == \E u \in users : u.email = e

TokenCreateThrows(tok) == \E row \in refreshTokens : row.token = tok

IsExpired(row, t) == row.expiresAt < t

(***************************************************************************)
(* register.  Each action runs a handler from one await to the next: the   *)
(* first one takes the request, validates it and performs the first store  *)
(* call.                                                                   *)
(***************************************************************************)
Register(b) ==
    /\ Quiet
    /\ Free
    /\ nextTokenId + Pending <= MaxRows
    /\ UNCHANGED <<storeVars, now, treq, tresp, authHist, taskHist>>
    /\ LET r == [AuthIdle EXCEPT !.op = "register", !.name = b.name,
                                 !.email = b.email, !.password = b.password]
           existingUser == findUserByEmail(b.email)
       IN  AuthStep(AuthIdle,
                IF ~registerSchema(b) THEN Respond(r, 400, "validation errors")
                ELSE IF existingUser.id # 0 THEN Respond(r, 400, "User already exists")
                ELSE [r EXCEPT !.pc = "create"])

RegisterCreate(h) ==
    /\ Quiet
    /\ h.op = "register" /\ h.pc = "create"
    /\ UNCHANGED <<refreshTokens, tasks, nextTokenId, nextTaskId, now, treq, tresp,
                   authHist, taskHist>>
    /\ IF UserCreateThrows(h.email)
       THEN /\ UNCHANGED <<users, nextUserId>>
            /\ AuthStep(h, Respond(h, 500, "Server error"))
       ELSE LET newUser == [id |-> nextUserId, name |-> h.name,
                            email |-> h.email,
                            password |-> Hash(h.password)]
            IN  /\ users' = users \cup {newUser}
                /\ nextUserId' = nextUserId + 1
                /\ AuthStep(h, [h EXCEPT !.pc = "tokens", !.user = newUser,
                                               !.created = TRUE])

\* generateTokens followed by the handler's response with status `ok`.
GenerateTokens(h, ok) ==
    LET u == h.user
        accessToken  == jwtSign(u.id, u.email, JWT_SECRET, AccessTtlSec, now)
        refreshToken == jwtSign(u.id, "", JWT_REFRESH_SECRET, RefreshTtlSec, now)
    IN  IF TokenCreateThrows(refreshToken)
        THEN /\ UNCHANGED <<refreshTokens, nextTokenId, issued>>
             /\ AuthStep(h, Respond(h, 500, "Server error"))
        ELSE /\ refreshTokens' = refreshTokens \cup
                    {[id |-> nextTokenId, token |-> refreshToken, userId |-> u.id,
                      expiresAt |-> now + RefreshTtlMs]}
             /\ nextTokenId' = nextTokenId + 1
             /\ issued' = issued \cup {refreshToken}
             /\ AuthStep(h, [Respond(h, ok, "") EXCEPT
                                !.accessToken = accessToken,
                                !.refreshToken = refreshToken])

RegisterTokens(h) ==
    /\ Quiet
    /\ h.op = "register" /\ h.pc = "tokens"
    /\ GenerateTokens(h, 201)
    /\ UNCHANGED <<users, tasks, nextUserId, nextTaskId, now, treq, tresp,
                   loggedOut, expiredSeen, taskHist>>

(***************************************************************************)
(* login                                                                   *)
(***************************************************************************)
Login(b) ==
    /\ Quiet
    /\ Free
    /\ nextTokenId + Pending <= MaxRows
    /\ UNCHANGED <<storeVars, now, treq, tresp, authHist, taskHist>>
    /\ LET r == [AuthIdle EXCEPT !.op = "login", !.email = b.email,
                                 !.password = b.password]
           user == findUserByEmail(b.email)
       IN  AuthStep(AuthIdle,
                IF ~loginSchema(b) THEN Respond(r, 400, "validation errors")
                ELSE IF user.id = 0 THEN Respond(r, 400, "Invalid credentials")
                ELSE IF ~Compare(b.password, user.password)
                THEN Respond([r EXCEPT !.user = user], 400, "Invalid credentials")
                ELSE [r EXCEPT !.pc = "tokens", !.user = user, !.matched = TRUE])

LoginTokens(h) ==
    /\ Quiet
    /\ h.op = "login" /\ h.pc = "tokens"
    /\ GenerateTokens(h, 200)
    /\ UNCHANGED <<users, tasks, nextUserId, nextTaskId, now, treq, tresp,
                   loggedOut, expiredSeen, taskHist>>

(***************************************************************************)
(* refresh                                                                 *)
(***************************************************************************)
\* Token values a client can send: the ones issued so far, a string that is
\* no token of this server, and none at all.
RefreshInputs == issued \cup {GarbageToken, NoToken}

\* A refresh that would hand out a new refresh token with the access token.
RefreshVerifiedRotating(r, storedToken, t) ==
    IF ~jwtVerify(r.token, JWT_REFRESH_SECRET, t)
    THEN Respond(r, 403, "Invalid refresh token")
    ELSE [Respond(r, 200, "") EXCEPT
             !.accessToken =
                 jwtSign(r.token.id,
                         (CHOOSE u \in users : u.id = storedToken.userId).email,
                         JWT_SECRET, AccessTtlSec, t),
             !.refreshToken = jwtSign(r.token.id, "", JWT_REFRESH_SECRET,
                                      RefreshTtlSec, t)]

\* The response of a refresh whose row was found unexpired: jwt.verify, then
\* a new access token and nothing else.
RefreshVerified(r, storedToken, t) ==
    IF ~jwtVerify(r.token, JWT_REFRESH_SECRET, t)
    THEN Respond(r, 403, "Invalid refresh token")
    ELSE [Respond(r, 200, "") EXCEPT
             !.accessToken =
                 jwtSign(r.token.id,
                         (CHOOSE u \in users : u.id = storedToken.userId).email,
                         JWT_SECRET, AccessTtlSec, t)]

Refresh(tok) ==
    /\ Quiet
    /\ Free
    /\ UNCHANGED <<storeVars, now, treq, tresp, authHist, taskHist>>
    /\ LET storedToken == findRefreshToken(tok)
           r == [AuthIdle EXCEPT !.op = "refresh", !.token = tok,
                    !.afterLogout = (tok \in loggedOut),
                    !.afterExpiry = (tok \in expiredSeen),
                    !.stored = storedToken,
                    !.expAhead = (now \div MsPerSec < tok.exp),
                    !.sawRow = IF storedToken.id = 0 THEN "absent"
                               ELSE IF storedToken.expiresAt < now THEN "expired"
                               ELSE "live"]
       IN  AuthStep(AuthIdle,
                IF tok = NoToken
                THEN Respond([r EXCEPT !.sawRow = "none"], 401, "Refresh token required")
                ELSE IF storedToken.id = 0
                THEN Respond(r, 403, "Invalid or expired refresh token")
                ELSE IF IsExpired(storedToken, now)
                THEN [r EXCEPT !.pc = "delete"]
                ELSE RefreshVerified(r, storedToken, now))

\* prisma.refreshToken.delete throws when no row has the id; the handler's
\* catch answers every exception with 403 'Invalid refresh token'.
RefreshDelete(h) ==
    /\ Quiet
    /\ h.op = "refresh" /\ h.pc = "delete"
    /\ IF h.stored \in refreshTokens
       THEN /\ refreshTokens' = refreshTokens \ {h.stored}
            /\ AuthStep(h, Respond(h, 403, "Invalid or expired refresh token"))
       ELSE /\ UNCHANGED refreshTokens
            /\ AuthStep(h, Respond(h, 403, "Invalid refresh token"))
    /\ expiredSeen' = expiredSeen \cup {h.token}
    /\ UNCHANGED <<users, tasks, nextUserId, nextTokenId, nextTaskId, now, treq, tresp,
                   issued, loggedOut, taskHist>>

(***************************************************************************)
(* logout                                                                  *)
(***************************************************************************)
DeleteMany(rows, tok) == {row \in rows : row.token # tok}

Logout(tok) ==
    /\ Quiet
    /\ Free
    /\ LET r == [AuthIdle EXCEPT !.op = "logout", !.token = tok]
       IN  IF tok = NoToken
           THEN /\ UNCHANGED <<refreshTokens, loggedOut>>
                /\ AuthStep(AuthIdle, Respond(r, 200, "Logged out successfully"))
           ELSE /\ refreshTokens' = DeleteMany(refreshTokens, tok)
                /\ loggedOut' = loggedOut \cup {tok}
                /\ AuthStep(AuthIdle, Respond(r, 200, "Logged out successfully"))
    /\ UNCHANGED <<users, tasks, nextUserId, nextTokenId, nextTaskId, now, treq, tresp,
                   issued, expiredSeen, taskHist>>

(***************************************************************************)
(* The clock: time passes by a second or by a whole refresh lifetime; the   *)
(* model follows it for one lifetime and MaxSkew seconds on either side.   *)
(***************************************************************************)
Jumps == {MsPerSec, RefreshTtlMs}

Advance(d) ==
    /\ Quiet
    /\ now + d <= RefreshTtlMs + MaxSkew * MsPerSec
    /\ (now + d) % RefreshTtlMs <= MaxSkew * MsPerSec
    /\ now' = now + d
    /\ resp' = AuthIdle
    /\ UNCHANGED <<storeVars, auth, treq, tresp, authHist, taskHist>>

(***************************************************************************)
(* Strings of the task routes are sequences of characters.  Absent is      *)
(* JavaScript's undefined (a key the body does not have), Null is null.    *)
(***************************************************************************)
Absent  == <<"undefined">>
Null    == <<"null">>
AbsentE == "undefined"

Statuses   == {"TODO", "IN_PROGRESS", "DONE"}
Priorities == {"LOW", "MEDIUM", "HIGH"}

RECURSIVE TrimLeft(_)
TrimLeft(str) ==
    IF str # <<>> /\ Head(str) = " " THEN TrimLeft(Tail(str)) ELSE str

RECURSIVE TrimRight(_)
TrimRight(str) ==
    IF str # <<>> /\ str[Len(str)] = " "
    THEN TrimRight(SubSeq(str, 1, Len(str) - 1)) ELSE str

\* String.prototype.trim
Trim(str) == TrimRight(TrimLeft(str))

\* Substring containment of { contains: search }
Contains(str, sub) ==
    \E i \in 0..(Len(str) - Len(sub)) : SubSeq(str, i + 1, i + Len(sub)) = sub

\* String.prototype.split(' '): the parts between the spaces.
RECURSIVE Split(_)
Split(str) ==
    IF \A i \in 1..Len(str) : str[i] # " " THEN <<str>>
    ELSE LET i == CHOOSE k \in 1..Len(str) :
                     str[k] = " " /\ \A j \in 1..(k - 1) : str[j] # " "
         IN  <<SubSeq(str, 1, i - 1)>> \o Split(SubSeq(str, i + 1, Len(str)))

\* new Date(val)
ToDate(val) == <<"Date">> \o val

\* val => val || null
OrNull(val) == IF val \in {Absent, Null, <<>>} THEN Null ELSE val

\* val => (val && val !== '' ? new Date(val) : null)
DateOrNull(val) == IF val \in {Absent, Null, <<>>} THEN Null ELSE ToDate(val)

(***************************************************************************)
(* The task routes start from a state the auth routes lead to: two users   *)
(* registered at time 0, the clock a quarter of an hour later.  Clients    *)
(* hold the access tokens of the registrations (expired by now), fresh     *)
(* ones from refresh, a forged one and a refresh token.                    *)
(***************************************************************************)
TaskNow == AccessTtlSec * MsPerSec

UserA == [id |-> 1, name |-> "Al", email |-> "a@x.io", password |-> Hash("secret1")]
UserB == [id |-> 2, name |-> "Al", email |-> "b@x.io", password |-> Hash("secret1")]

RowOf(u, t) ==
    [id |-> u.id, token |-> jwtSign(u.id, "", JWT_REFRESH_SECRET, RefreshTtlSec, t),
     userId |-> u.id, expiresAt |-> t + RefreshTtlMs]

TokenTable ==
    [tA |-> jwtSign(UserA.id, UserA.email, JWT_SECRET, AccessTtlSec, TaskNow),
     tB |-> jwtSign(UserB.id, UserB.email, JWT_SECRET, AccessTtlSec, TaskNow),
     tOld |-> jwtSign(UserA.id, UserA.email, JWT_SECRET, AccessTtlSec, 0),
     tForged |-> jwtSign(UserA.id, UserA.email, "not the secret", AccessTtlSec, TaskNow),
     tRefresh |-> RowOf(UserA, 0).token]

\* The token a header part spells.
Decode(part) ==
    IF Len(part) = 1 /\ part[1] \in DOMAIN TokenTable THEN TokenTable[part[1]]
    ELSE GarbageToken

\* Authorization headers, each with what the gate has to make of it: no
\* token ("missing"), a token that does not verify ("invalid"), or the
\* identity of a verified one.
NoIdent == [id |-> 0, email |-> ""]
IdentA  == [id |-> UserA.id, email |-> UserA.email]
IdentB  == [id |-> UserB.id, email |-> UserB.email]

Headers ==
    {[raw |-> <<>>, expect |-> "missing", who |-> NoIdent],
     [raw |-> <<"Bearer">>, expect |-> "missing", who |-> NoIdent],
     [raw |-> <<"Bearer", " ">>, expect |-> "missing", who |-> NoIdent],
     [raw |-> <<"Bearer", " ", "tOld">>, expect |-> "invalid", who |-> NoIdent],
     [raw |-> <<"Bearer", " ", "tForged">>, expect |-> "invalid", who |-> NoIdent],
     [raw |-> <<"Bearer", " ", "tRefresh">>, expect |-> "invalid", who |-> NoIdent],
     [raw |-> <<"Bearer", " ", "tA">>, expect |-> "valid", who |-> IdentA],
     [raw |-> <<"Bearer", " ", "tB">>, expect |-> "valid", who |-> IdentB]}

ValidHeaders == {hd \in Headers : hd.expect = "valid"}

\* A gate that would decode the token without verifying it.
authenticateTokenUnverified(raw, t) ==
    LET parts == Split(raw)
        token == IF Len(parts) >= 2 THEN parts[2] ELSE <<>>
    IN  IF token = <<>> THEN [status |-> 401, user |-> NoIdent]
        ELSE [status |-> 0,
              user |-> [id |-> Decode(token).id, email |-> Decode(token).email]]

\* authenticateToken: the status it answers with (0 when it calls next())
\* and the identity it attaches to the request.
authenticateToken(raw, t) ==
    LET parts == Split(raw)
        token == IF Len(parts) >= 2 THEN parts[2] ELSE <<>>
    IN  IF token = <<>> THEN [status |-> 401, user |-> NoIdent]
        ELSE IF ~jwtVerify(Decode(token), JWT_SECRET, t)
        THEN [status |-> 403, user |-> NoIdent]
        ELSE [status |-> 0,
              user |-> [id |-> Decode(token).id, email |-> Decode(token).email]]

(***************************************************************************)
(* Task bodies, queries and their zod schemas.                             *)
(***************************************************************************)
NoBody ==
    [title |-> Absent, description |-> Absent, status |-> AbsentE,
     priority |-> AbsentE, dueDate |-> Absent]

CreateBodies ==
    {[NoBody EXCEPT !.title = <<" ", "a">>, !.description = <<"d">>, !.dueDate = <<"7">>],
     [NoBody EXCEPT !.title = <<" ">>]}

UpdateBodies ==
    {[NoBody EXCEPT !.status = "DONE"],
     [NoBody EXCEPT !.title = <<"c", " ">>, !.description = <<>>, !.dueDate = <<>>],
     [NoBody EXCEPT !.title = <<>>]}

NoTask ==
    [id |-> 0, title |-> <<>>, description |-> Null, status |-> "", priority |-> "",
     dueDate |-> Null, userId |-> 0]

NoQuery ==
    [status |-> AbsentE, priority |-> AbsentE, search |-> Absent, sortBy |-> AbsentE,
     order |-> AbsentE, page |-> AbsentE, limit |-> AbsentE]

createTaskSchema(b) ==
    /\ b.title \notin {Absent, Null} /\ Len(Trim(b.title)) >= 1
    /\ b.status \in Statuses \cup {AbsentE}
    /\ b.priority \in Priorities \cup {AbsentE}

createTaskData(b) ==
    [title |-> Trim(b.title),
     description |-> OrNull(b.description),
     status |-> IF b.status = AbsentE THEN "TODO" ELSE b.status,
     priority |-> IF b.priority = AbsentE THEN "MEDIUM" ELSE b.priority,
     dueDate |-> DateOrNull(b.dueDate)]

updateTaskSchema(b) ==
    /\ b.title # Null
    /\ b.title = Absent \/ Len(Trim(b.title)) >= 1
    /\ b.status \in Statuses \cup {AbsentE}
    /\ b.priority \in Priorities \cup {AbsentE}

\* The parsed updates: an optional key the body lacks stays undefined, but
\* the transforms of description and dueDate run on undefined too and their
\* result, null, is a value of the parsed object.
updateTaskData(b) ==
    [title |-> IF b.title = Absent THEN Absent ELSE Trim(b.title),
     description |-> OrNull(b.description),
     status |-> b.status,
     priority |-> b.priority,
     dueDate |-> DateOrNull(b.dueDate)]

\* prisma update: a key that is undefined leaves the column alone.
ApplyUpdates(t, data) ==
    [t EXCEPT
        !.title = IF data.title = Absent THEN @ ELSE data.title,
        !.description = IF data.description = Absent THEN @ ELSE data.description,
        !.status = IF data.status = AbsentE THEN @ ELSE data.status,
        !.priority = IF data.priority = AbsentE THEN @ ELSE data.priority,
        !.dueDate = IF data.dueDate = Absent THEN @ ELSE data.dueDate]

TaskIdle ==
    [op |-> "idle", pc |-> "idle", header |-> [raw |-> <<>>, expect |-> "", who |-> NoIdent],
     id |-> 0, body |-> NoBody, query |-> NoQuery, data |-> NoBody,
     user |-> NoIdent, ran |-> FALSE, task |-> NoTask, prev |-> NoTask,
     status |-> 0, msg |-> "", tasks |-> <<>>,
     total |-> 0, page |-> 0, limit |-> 0, totalPages |-> 0]

RespondT(r, s, m) == [r EXCEPT !.pc = "done", !.status = s, !.msg = m]

TaskStep(h, r) ==
    LET others == IF h.pc = "idle" THEN treq ELSE treq (-) SetToBag({h})
    IN  IF r.pc = "done"
        THEN treq' = others /\ tresp' = r
        ELSE treq' = others (+) SetToBag({r}) /\ tresp' = TaskIdle

FreeT == BagCardinality(treq) < NumHandlers

\* The request as the route's handler receives it from the gate, or the
\* gate's own response.
Gate(op, hd, id, body, q) ==
    LET g == authenticateToken(hd.raw, now)
        r == [TaskIdle EXCEPT !.op = op, !.header = hd, !.id = id, !.body = body,
                              !.query = q]
    IN  IF g.status = 401 THEN RespondT(r, 401, "Access denied, token missing!")
        ELSE IF g.status = 403 THEN RespondT(r, 403, "Invalid token")
        ELSE [r EXCEPT !.user = g.user, !.ran = TRUE, !.pc = "handler"]

\* A lookup by id alone.
findFirstAnyOwner(id, userId) ==
    IF \E t \in tasks : t.id = id
    THEN CHOOSE t \in tasks : t.id = id
    ELSE NoTask

\* prisma.task.findFirst({ where: { id, userId } })
findFirst(id, userId) ==
    IF \E t \in tasks : t.id = id /\ t.userId = userId
    THEN CHOOSE t \in tasks : t.id = id /\ t.userId = userId
    ELSE NoTask

(***************************************************************************)
(* getTaskById, createTask, updateTask, deleteTask                         *)
(***************************************************************************)
GetTaskById(hd, id) ==
    /\ Quiet
    /\ FreeT
    /\ UNCHANGED <<storeVars, now, auth, resp, authHist, taskHist>>
    /\ LET r == Gate("get", hd, id, NoBody, NoQuery)
           task == findFirst(id, r.user.id)
       IN  TaskStep(TaskIdle,
                IF r.pc = "done" THEN r
                ELSE IF task.id = 0 THEN RespondT(r, 404, "Task not found")
                ELSE [RespondT(r, 200, "") EXCEPT !.task = task])

CreateTask(hd, b) ==
    /\ Quiet
    /\ FreeT
    /\ UNCHANGED <<users, refreshTokens, nextUserId, nextTokenId, now, auth, resp,
                   authHist, modifiedBy>>
    /\ LET r == Gate("create", hd, 0, b, NoQuery)
           d == createTaskData(b)
           newTask == [id |-> nextTaskId, title |-> d.title,
                       description |-> d.description, status |-> d.status,
                       priority |-> d.priority, dueDate |-> d.dueDate,
                       userId |-> r.user.id]
       IN  IF r.pc = "done" \/ ~createTaskSchema(b) \/ r.user.id = 0
           THEN /\ UNCHANGED <<tasks, nextTaskId, creator, deletedOk>>
                /\ TaskStep(TaskIdle,
                      IF r.pc = "done" THEN r
                      ELSE IF ~createTaskSchema(b) THEN RespondT(r, 400, "validation errors")
                      ELSE RespondT(r, 401, "User not authenticated"))
           ELSE /\ tasks' = tasks \cup {newTask}
                /\ nextTaskId' = nextTaskId + 1
                /\ creator' = Append(creator, r.user.id)
                /\ deletedOk' = Append(deletedOk, 0)
                /\ TaskStep(TaskIdle, [RespondT(r, 201, "") EXCEPT !.task = newTask])

UpdateTask(hd, id, b) ==
    /\ Quiet
    /\ FreeT
    /\ UNCHANGED <<storeVars, now, auth, resp, authHist, taskHist>>
    /\ LET r == Gate("update", hd, id, b, NoQuery)
           task == findFirst(id, r.user.id)
       IN  TaskStep(TaskIdle,
                IF r.pc = "done" THEN r
                ELSE IF ~updateTaskSchema(b) THEN RespondT(r, 400, "validation errors")
                ELSE IF task.id = 0 THEN RespondT(r, 404, "Task not found")
                ELSE [r EXCEPT !.pc = "update", !.data = updateTaskData(b)])

\* prisma.task.update({ where: { id } }) throws when no task has the id.
UpdateWrite(h) ==
    /\ Quiet
    /\ h.op = "update" /\ h.pc = "update"
    /\ UNCHANGED <<users, refreshTokens, nextUserId, nextTokenId, nextTaskId, now,
                   auth, resp, authHist, creator, deletedOk>>
    /\ IF \E t \in tasks : t.id = h.id
       THEN LET old == CHOOSE t \in tasks : t.id = h.id
                updatedTask == ApplyUpdates(old, h.data)
            IN  /\ tasks' = (tasks \ {old}) \cup {updatedTask}
                /\ modifiedBy' = modifiedBy \cup {<<old.id, h.user.id>>}
                /\ TaskStep(h, [RespondT(h, 200, "") EXCEPT
                                   !.task = updatedTask, !.prev = old])
       ELSE /\ UNCHANGED <<tasks, modifiedBy>>
            /\ TaskStep(h, RespondT(h, 500, "Server error"))

DeleteTask(hd, id) ==
    /\ Quiet
    /\ FreeT
    /\ UNCHANGED <<storeVars, now, auth, resp, authHist, taskHist>>
    /\ LET r == Gate("delete", hd, id, NoBody, NoQuery)
           task == findFirst(id, r.user.id)
       IN  TaskStep(TaskIdle,
                IF r.pc = "done" THEN r
                ELSE IF task.id = 0 THEN RespondT(r, 404, "Task not found")
                ELSE [r EXCEPT !.pc = "delete"])

\* prisma.task.delete({ where: { id } }) throws when no task has the id.
DeleteWrite(h) ==
    /\ Quiet
    /\ h.op = "delete" /\ h.pc = "delete"
    /\ UNCHANGED <<users, refreshTokens, nextUserId, nextTokenId, nextTaskId, now,
                   auth, resp, authHist, creator>>
    /\ IF \E t \in tasks : t.id = h.id
       THEN LET old == CHOOSE t \in tasks : t.id = h.id
            IN  /\ tasks' = tasks \ {old}
                /\ modifiedBy' = modifiedBy \cup {<<old.id, h.user.id>>}
                /\ deletedOk' = [deletedOk EXCEPT ![old.id] = @ + 1]
                /\ TaskStep(h, [RespondT(h, 200, "Task deleted successfully")
                                   EXCEPT !.prev = old])
       ELSE /\ UNCHANGED <<tasks, modifiedBy, deletedOk>>
            /\ TaskStep(h, RespondT(h, 500, "Server error"))

(***************************************************************************)
(* getTasks                                                                *)
(***************************************************************************)
Digits == <<"0", "1", "2", "3", "4", "5", "6", "7", "8", "9">>

\* Number(str) of a one-digit query string
Number(str) == (CHOOSE i \in 1..Len(Digits) : Digits[i] = str) - 1

Min(a, b) == IF a <= b THEN a ELSE b
Max(a, b) == IF a >= b THEN a ELSE b

\* Math.ceil(a / b) for b > 0
Ceil(a, b) == (a + b - 1) \div b

Alphabet == <<" ", "7", "a", "b", "c", "d", "e">>
Rank(c) == CHOOSE i \in 1..Len(Alphabet) : Alphabet[i] = c

RECURSIVE LexLess(_, _)
LexLess(x, y) ==
    IF y = <<>> THEN FALSE
    ELSE IF x = <<>> THEN TRUE
    ELSE IF Head(x) # Head(y) THEN Rank(Head(x)) < Rank(Head(y))
    ELSE LexLess(Tail(x), Tail(y))

\* where: the caller's tasks, narrowed by the filters the query gives
Where(t, userId, q) ==
    /\ t.userId = userId
    /\ q.status = AbsentE \/ t.status = q.status
    /\ q.priority = AbsentE \/ t.priority = q.priority
    /\ q.search \in {Absent, <<>>}
          \/ Contains(t.title, q.search)
          \/ (t.description # Null /\ Contains(t.description, q.search))

\* orderBy: [sortBy || 'createdAt']: order === 'asc' ? 'asc' : 'desc'.  Tasks
\* are created one after the other, so createdAt orders them as id does; rows
\* with equal keys come in any order.
Before(t1, t2, sortBy, order) ==
    LET lt(x, y) == IF sortBy = "title" THEN LexLess(x.title, y.title)
                    ELSE x.id < y.id
    IN  IF order = "asc" THEN lt(t1, t2) ELSE lt(t2, t1)

\* Every order of the rows of S the sort key allows.
RECURSIVE OrderBy(_, _, _)
OrderBy(S, sortBy, order) ==
    IF S = {} THEN {<<>>}
    ELSE UNION {{<<m>> \o rest : rest \in OrderBy(S \ {m}, sortBy, order)} :
                  m \in {x \in S : \A y \in S : ~Before(y, x, sortBy, order)}}

\* A skip that would count pages from zero.
SkipOfPageTimesLimit(page, limit) == page * limit

\* skip = (Number(page) - 1) * Number(limit)
SkipOf(page, limit) == (page - 1) * limit

\* findMany's skip and take
Page(ord, skip, take) ==
    IF skip >= Len(ord) \/ take = 0 THEN <<>>
    ELSE SubSeq(ord, skip + 1, Min(Len(ord), skip + take))

DefaultPage  == "1"
DefaultLimit == "10"

NumberOfLimit(str) == IF str = DefaultLimit THEN 10 ELSE Number(str)

GetTasks(hd, q) ==
    /\ Quiet
    /\ FreeT
    /\ UNCHANGED <<storeVars, now, auth, resp, authHist, taskHist>>
    /\ LET r == Gate("list", hd, 0, NoBody, q)
           page  == IF q.page = AbsentE THEN DefaultPage ELSE q.page
           limit == IF q.limit = AbsentE THEN DefaultLimit ELSE q.limit
           skip == SkipOf(Number(page), NumberOfLimit(limit))
           take == NumberOfLimit(limit)
           matching == {t \in tasks : Where(t, r.user.id, q)}
           total == Cardinality(matching)
       IN  IF r.pc = "done" THEN TaskStep(TaskIdle, r)
           ELSE \E ord \in OrderBy(matching, q.sortBy, q.order) :
                   TaskStep(TaskIdle, [RespondT(r, 200, "") EXCEPT
                       !.tasks = Page(ord, skip, take),
                       !.total = total,
                       !.page = Number(page),
                       !.limit = NumberOfLimit(limit),
                       !.totalPages = Ceil(total, NumberOfLimit(limit))])

(***************************************************************************)
(* res.json: the response goes out.                                        *)
(***************************************************************************)
Send ==
    /\ ~Quiet
    /\ resp' = AuthIdle /\ tresp' = TaskIdle
    /\ UNCHANGED <<storeVars, now, auth, treq, authHist, taskHist>>

(***************************************************************************)
(* The auth routes under concurrent handlers.                              *)
(***************************************************************************)
Init ==
    /\ users = {} /\ refreshTokens = {} /\ tasks = {}
    /\ nextUserId = 1 /\ nextTokenId = 1 /\ nextTaskId = 1
    /\ now = 0
    /\ auth = EmptyBag
    /\ treq = EmptyBag
    /\ resp = AuthIdle /\ tresp = TaskIdle
    /\ issued = {} /\ loggedOut = {} /\ expiredSeen = {}
    /\ creator = <<>> /\ modifiedBy = {} /\ deletedOk = <<>>

\* Registration and login under concurrent handlers.
Next ==
    \/ Send
    \/ \E b \in RegisterBodies : Register(b)
    \/ \E h \in BagToSet(auth) : RegisterCreate(h)
    \/ \E h \in BagToSet(auth) : RegisterTokens(h)
    \/ \E b \in LoginBodies : Login(b)
    \/ \E h \in BagToSet(auth) : LoginTokens(h)

Spec == Init /\ [][Next]_vars

\* The life of one user's refresh tokens: issue, rotate, revoke, expire.
SessionRegisterBodies == {b \in RegisterBodies : b.email = "a@x.io"}
SessionLoginBodies == {b \in LoginBodies : b.email = "a@x.io"}

NextSession ==
    \/ Send
    \/ \E b \in SessionRegisterBodies : Register(b)
    \/ \E h \in BagToSet(auth) : RegisterCreate(h)
    \/ \E h \in BagToSet(auth) : RegisterTokens(h)
    \/ \E b \in SessionLoginBodies : Login(b)
    \/ \E h \in BagToSet(auth) : LoginTokens(h)
    \/ \E tok \in RefreshInputs : Refresh(tok)
    \/ \E h \in BagToSet(auth) : RefreshDelete(h)
    \/ \E tok \in RefreshInputs : Logout(tok)
    \/ \E d \in Jumps : Advance(d)

SpecSession == Init /\ [][NextSession]_vars

(***************************************************************************)
(* The task routes under concurrent handlers.                              *)
(***************************************************************************)
InitTasks ==
    /\ users = {UserA, UserB}
    /\ refreshTokens = {RowOf(UserA, 0), RowOf(UserB, 0)}
    /\ tasks = {}
    /\ nextUserId = 3 /\ nextTokenId = 3 /\ nextTaskId = 1
    /\ now = TaskNow
    /\ auth = EmptyBag
    /\ treq = EmptyBag
    /\ resp = AuthIdle /\ tresp = TaskIdle
    /\ issued = {RowOf(UserA, 0).token, RowOf(UserB, 0).token}
    /\ loggedOut = {} /\ expiredSeen = {}
    /\ creator = <<>> /\ modifiedBy = {} /\ deletedOk = <<>>

TaskIds == 1..MaxTasks

ListQueries ==
    {NoQuery,
     [NoQuery EXCEPT !.status = "DONE", !.page = "1", !.limit = "1"],
     [NoQuery EXCEPT !.search = <<"a">>, !.sortBy = "title", !.order = "asc"]}

NextTasks ==
    \/ Send
    \/ \E hd \in Headers, q \in ListQueries : GetTasks(hd, q)
    \/ \E hd \in Headers, id \in TaskIds : GetTaskById(hd, id)
    \/ nextTaskId <= MaxTasks
          /\ \E hd \in Headers, b \in CreateBodies : CreateTask(hd, b)
    \/ \E hd \in Headers, id \in TaskIds, b \in UpdateBodies :
          UpdateTask(hd, id, b)
    \/ \E h \in BagToSet(treq) : UpdateWrite(h)
    \/ \E hd \in Headers, id \in TaskIds : DeleteTask(hd, id)
    \/ \E h \in BagToSet(treq) : DeleteWrite(h)

SpecTasks == InitTasks /\ [][NextTasks]_vars

(***************************************************************************)
(* Listing.  The store is filled by a client that creates its tasks from a *)
(* fixed cycle of bodies (the other user adds a few of its own in          *)
(* between), and listed with every combination of filters, page and limit. *)
(***************************************************************************)
Workload ==
    <<[NoBody EXCEPT !.title = <<"a">>, !.description = <<"d">>],
      [NoBody EXCEPT !.title = <<"b">>, !.status = "DONE", !.priority = "HIGH"],
      [NoBody EXCEPT !.title = <<"c">>, !.description = <<"a", "b">>,
                     !.status = "DONE"]>>

ListBody(k) == Workload[(k % Len(Workload)) + 1]

PageStrings  == {AbsentE} \cup {Digits[k + 1] : k \in 1..MaxPage}
LimitStrings == {AbsentE} \cup {Digits[k + 1] : k \in 1..MaxLimit}

Filters ==
    {NoQuery,
     [NoQuery EXCEPT !.status = "DONE"],
     [NoQuery EXCEPT !.priority = "HIGH", !.search = <<"b">>],
     [NoQuery EXCEPT !.status = "DONE", !.search = <<"a">>]}

PageQueries ==
    {[f EXCEPT !.order = o, !.page = pg, !.limit = li] :
        f \in Filters, o \in {AbsentE, "asc"},
        pg \in PageStrings, li \in LimitStrings}

NextList ==
    \/ Send
    \/ /\ nextTaskId <= MaxListed
       /\ \E hd \in ValidHeaders :
            /\ hd.who = IdentB
                  => Cardinality({t \in tasks : t.userId = UserB.id}) < MaxForeign
            /\ CreateTask(hd, ListBody(nextTaskId))
    \/ \E hd \in ValidHeaders, q \in PageQueries : GetTasks(hd, q)

SpecList == InitTasks /\ [][NextList]_vars

(***************************************************************************)
(* Claims about the auth routes.                                           *)
(***************************************************************************)
AuthDone(op) == resp.op = op /\ resp.pc = "done"

\* C1: no two users share an email, and every valid register request that
\* meets an already registered email (so creates no user itself) answers
\* 400 'User already exists' and adds no refresh-token row.
C1_RegisterConflict ==
    /\ \A u1, u2 \in users : u1.email = u2.email => u1 = u2
    /\ (AuthDone("register") /\ registerSchema(resp) /\ ~resp.created)
          => /\ resp.status = 400 /\ resp.msg = "User already exists"
             /\ resp.added = 0

\* C9: every login with a registered email and its password answers 200
\* with an access token that verifies to the stored user's {id, email}, and
\* adds exactly one refresh-token row, owned by that user, removing none.
C9_LoginIssuesPair ==
    (AuthDone("login") /\ resp.matched)
       => LET u == findUserByEmail(resp.email)
          IN  /\ resp.status = 200
              /\ jwtVerify(resp.accessToken, JWT_SECRET, now)
              /\ resp.accessToken.id = u.id /\ resp.accessToken.email = u.email
              /\ resp.added = 1 /\ resp.removed = 0
              /\ \E row \in refreshTokens :
                    row.token = resp.refreshToken /\ row.userId = u.id

\* C4: a refresh that starts after a completed logout of the same token
\* answers 403 without an access token, and logout always answers 200.
C4_RevokeThenRotateFails ==
    /\ (AuthDone("refresh") /\ resp.afterLogout)
          => resp.status = 403 /\ resp.accessToken = NoToken
    /\ AuthDone("logout") => resp.status = 200

\* C5: a refresh that finds its row expired answers 403 'Invalid or expired
\* refresh token' without an access token and the row is gone; every refresh
\* of that token afterwards fails with the row not found.
C5_ExpiredRowRejected ==
    /\ (AuthDone("refresh") /\ resp.sawRow = "expired")
          => /\ resp.status = 403 /\ resp.msg = "Invalid or expired refresh token"
             /\ resp.accessToken = NoToken
             /\ ~\E row \in refreshTokens : row.token = resp.token
    /\ (AuthDone("refresh") /\ resp.afterExpiry)
          => /\ resp.status = 403 /\ resp.accessToken = NoToken
             /\ resp.sawRow = "absent"

\* A successful refresh returns an access token and nothing else and leaves
\* the refresh-token table as it was.
RefreshFrame ==
    (AuthDone("refresh") /\ resp.status = 200)
       => /\ resp.accessToken # NoToken /\ resp.refreshToken = NoToken
          /\ resp.added = 0 /\ resp.removed = 0

TaskDone(op) == tresp.op = op /\ tresp.pc = "done"

\* The request reached a handler with the id of a task another user created.
Foreign ==
    /\ tresp.pc = "done" /\ tresp.ran
    /\ tresp.op \in {"get", "update", "delete"}
    /\ tresp.id \in 1..Len(creator) /\ creator[tresp.id] # tresp.user.id

\* No task is ever written or deleted by a user other than its creator, and
\* no list holds a task of another user.
Isolated ==
    /\ \A w \in modifiedBy : w[2] = creator[w[1]]
    /\ (TaskDone("list") /\ tresp.ran)
          => \A i \in 1..Len(tresp.tasks) : tresp.tasks[i].userId = tresp.user.id

\* C2 as stated: getTaskById, updateTask and deleteTask with another user's
\* task id answer 404, the task is left as it was, and no list shows it.
C2_ForeignIsNotFound ==
    /\ Foreign => tresp.status = 404
    /\ Isolated

\* C2, amended: getTaskById and deleteTask with another user's task id answer
\* 404, updateTask answers 400 when its body is invalid and 404 otherwise;
\* the task is left as it was, and no list shows it.
C2_ForeignIsNotFoundOrInvalid ==
    /\ Foreign
          => tresp.status = IF tresp.op = "update" /\ ~updateTaskSchema(tresp.body)
                            THEN 400 ELSE 404
    /\ Isolated

\* C2: an updateTask with a valid body and another user's task id ended 404
\* and the task is still stored.
C2_Witness ==
    /\ Foreign /\ tresp.op = "update" /\ updateTaskSchema(tresp.body)
    /\ tresp.status = 404
    /\ \E t \in tasks : t.id = tresp.id /\ t.userId # tresp.user.id

\* C3: a handler runs only for a header whose token verifies, and then with
\* that token's {id, email}; a header without a token ends 401 and one whose
\* token does not verify ends 403, both with no identity and no handler run.
C3_AuthGate ==
    /\ \A h \in BagToSet(treq) :
          h.ran /\ h.header.expect = "valid" /\ h.user = h.header.who
    /\ tresp.pc = "done"
          => /\ tresp.header.expect = "missing"
                   => tresp.status = 401 /\ ~tresp.ran /\ tresp.user = NoIdent
             /\ tresp.header.expect = "invalid"
                   => tresp.status = 403 /\ ~tresp.ran /\ tresp.user = NoIdent
             /\ tresp.header.expect = "valid"
                   => tresp.ran /\ tresp.user = tresp.header.who
                         /\ tresp.status \notin {401, 403}

\* C3: a deleteTask ran with the identity of the second user's token and
\* ended 200.
C3_Witness ==
    /\ TaskDone("delete") /\ tresp.ran /\ tresp.user = IdentB
    /\ tresp.status = 200

\* C7: a successful updateTask leaves every field its body does not give as
\* it was, and stores null for a description or dueDate given as ''.
C7_PartialUpdate ==
    (TaskDone("update") /\ tresp.status = 200)
       => /\ tresp.task.id = tresp.prev.id /\ tresp.task.userId = tresp.prev.userId
          /\ tresp.body.title = Absent => tresp.task.title = tresp.prev.title
          /\ tresp.body.status = AbsentE => tresp.task.status = tresp.prev.status
          /\ tresp.body.priority = AbsentE
                => tresp.task.priority = tresp.prev.priority
          /\ tresp.body.description = Absent
                => tresp.task.description = tresp.prev.description
          /\ tresp.body.dueDate = Absent => tresp.task.dueDate = tresp.prev.dueDate
          /\ tresp.body.description = <<>> => tresp.task.description = Null
          /\ tresp.body.dueDate = <<>> => tresp.task.dueDate = Null

\* C10: an updateTask (with a valid body) or deleteTask of the owner on its
\* own task id ends 200 or 404, and at most one deleteTask of a task ends 200.
C10_LookupThenWriteAtomic ==
    /\ (/\ tresp.pc = "done" /\ tresp.ran /\ tresp.op \in {"update", "delete"}
        /\ tresp.id \in 1..Len(creator) /\ creator[tresp.id] = tresp.user.id
        /\ tresp.op = "update" => updateTaskSchema(tresp.body))
          => tresp.status \in {200, 404}
    /\ \A id \in 1..Len(deletedOk) : deletedOk[id] <= 1

\* The filters of a list query, as the route's contract states them.
Matches(t, q) ==
    /\ q.status # AbsentE => t.status = q.status
    /\ q.priority # AbsentE => t.priority = q.priority
    /\ q.search # Absent
          => \/ Contains(t.title, q.search)
             \/ (t.description # Null /\ Contains(t.description, q.search))

\* C8: a list for a user with `total` matching tasks, page p and limit l
\* (1 and 10 when absent) holds min(l, max(0, total - (p-1)*l)) distinct
\* tasks, all the user's and matching, with pagination.total = total and
\* pagination.totalPages = ceil(total / l).
C8_Pagination ==
    (TaskDone("list") /\ tresp.ran)
       => LET q == tresp.query
              p == IF q.page = AbsentE THEN 1 ELSE Number(q.page)
              l == IF q.limit = AbsentE THEN 10 ELSE Number(q.limit)
              mine == {t \in tasks : t.userId = tresp.user.id /\ Matches(t, q)}
              total == Cardinality(mine)
          IN  /\ tresp.status = 200
              /\ Len(tresp.tasks) = Min(l, Max(0, total - (p - 1) * l))
              /\ \A i \in 1..Len(tresp.tasks) : tresp.tasks[i] \in mine
              /\ \A i, j \in 1..Len(tresp.tasks) :
                    i # j => tresp.tasks[i] # tresp.tasks[j]
              /\ tresp.total = total
              /\ tresp.page = p /\ tresp.limit = l
              /\ tresp.totalPages * l >= total
              /\ (tresp.totalPages - 1) * l < total \/ tresp.totalPages = 0

\* C8: page 2 with the default limit over more than ten matching tasks holds
\* the tasks past the tenth, and totalPages is 2.
C8_Witness ==
    /\ TaskDone("list") /\ tresp.ran
    /\ tresp.query.limit = AbsentE /\ tresp.query.page = "2"
    /\ tresp.total > 10 /\ Len(tresp.tasks) = tresp.total - 10
    /\ tresp.totalPages = 2

=============================================================================
